---- MODULE Spec2Model ----
(***************************************************************************)
(* USSD code pool of the TekeTeke backend: the ussd_pool table, the two    *)
(* admin handlers that allocate codes from it (assign-next and             *)
(* bind-from-pool) and the record deletions that could touch an owner.     *)
(* Text values are sequences of one-character strings, so that parsing,    *)
(* formatting and digit arithmetic are computed as the code computes them. *)
(***************************************************************************)
EXTENDS Integers, Sequences, FiniteSets, TLC

\* ---------------------------------------------------------------- bounds
NumProcs == 2      \* request slots that may be in flight at the same time
SeedCount == 3     \* rows seeded into ussd_pool (SEED_COUNT)
MaxTime == 2       \* last clock reading a request can observe

\* ------------------------------------------------------------- constants
SeedStart == 110   \* default SEED_START of the Node seeder

NULL == "NULL"     \* JS undefined / SQL null for text-valued fields
NoTime == 0        \* SQL null for allocated_at; real clock readings are >= 1
NoText == << >>    \* absent text made of characters

Procs == 1 .. NumProcs

\* ---------------------------------------------------------- text helpers
Digits == <<"0", "1", "2", "3", "4", "5", "6", "7", "8", "9">>

IsDigit(c) == \E i \in 1 .. 10 : Digits[i] = c

\* Number(c) || 0 for a single character
DigitVal(c) == IF IsDigit(c) THEN (CHOOSE i \in 1 .. 10 : Digits[i] = c) - 1 ELSE 0

RECURSIVE DecStr(_)
\* String(n) for a non-negative integer
DecStr(n) == IF n < 10 THEN <<Digits[n + 1]>> ELSE Append(DecStr(n \div 10), Digits[(n % 10) + 1])

\* String(i).padStart(3, '0')
PadStart3(n) ==
  LET s == DecStr(n)
  IN  IF Len(s) >= 3 THEN s
      ELSE IF Len(s) = 2 THEN <<"0">> \o s
      ELSE <<"0", "0">> \o s

RECURSIVE sumDigits_FromOne(_)
\* the reduce started from 1 instead of 0
sumDigits_FromOne(str) ==
  IF str = << >> THEN 1 ELSE DigitVal(Head(str)) + sumDigits_FromOne(Tail(str))

RECURSIVE sumDigits(_)
sumDigits(str) == IF str = << >> THEN 0 ELSE DigitVal(Head(str)) + sumDigits(Tail(str))

\* the digits summed a second time only once: if (s > 9) instead of while (s > 9)
digitalRootLoop_Once(s) == IF s > 9 THEN sumDigits(DecStr(s)) ELSE s

RECURSIVE digitalRootLoop(_)
digitalRootLoop(s) == IF s > 9 THEN digitalRootLoop(sumDigits(DecStr(s))) ELSE s

\* the digit sum modulo 9 without the offset
digitalRoot_Mod9(n) == sumDigits(n) % 9

digitalRoot(n) == digitalRootLoop(sumDigits(n))

\* text order of two equally long digit strings (ORDER BY base)
TextLess(a, b) ==
  \E i \in 1 .. Len(a) :
    /\ i <= Len(b)
    /\ \A j \in 1 .. (i - 1) : a[j] = b[j]
    /\ DigitVal(a[i]) < DigitVal(b[i])

DefaultPrefix == <<"*", "0", "0", "1", "*">>

\* the code always printed with the default prefix
fullCode_FixedPrefix(prefix, base, check) == DefaultPrefix \o base \o <<check>> \o <<"#">>

fullCode(prefix, base, check) ==
  LET p == IF prefix = NoText THEN DefaultPrefix ELSE prefix
  IN  p \o base \o <<check>> \o <<"#">>

\* the pattern anchored at the start of the string: /^(\d{3})(\d)(?=#|$)/
MatchAt_Anchored(s) ==
  { i \in {1} :
      /\ i + 3 <= Len(s)
      /\ \A k \in 0 .. 3 : IsDigit(s[i + k])
      /\ (i + 3 = Len(s) \/ s[i + 4] = "#") }

\* positions where /(\d{3})(\d)(?=#|$)/ matches
MatchAt(s) ==
  { i \in 1 .. Len(s) :
      /\ i + 3 <= Len(s)
      /\ \A k \in 0 .. 3 : IsDigit(s[i + k])
      /\ (i + 3 = Len(s) \/ s[i + 4] = "#") }

NoParse == [base |-> NoText, check |-> NULL]

parseUssdDigits(ussd) ==
  IF MatchAt(ussd) = {} THEN NoParse
  ELSE LET i == CHOOSE k \in MatchAt(ussd) : \A m \in MatchAt(ussd) : k <= m
       IN  [base |-> SubSeq(ussd, i, i + 2), check |-> ussd[i + 3]]

\* String(level || '').toUpperCase()
ToUpperCase(level) ==
  CASE level = NULL -> ""
    [] level = "sacco" -> "SACCO"
    [] level = "matatu" -> "MATATU"
    [] level = "cashier" -> "CASHIER"
    [] OTHER -> level

NoTarget == [assigned_type |-> NULL, assigned_id |-> NULL]
LevelError == <<"level must be SACCO or MATATU (CASHIER no longer supported)">>

Truthy(v) == v # NULL /\ v # ""

\* resolveTarget without the test of the level
resolveTarget_IgnoresLevel(level, ids) ==
  IF Truthy(ids.matatu_id) /\ ToUpperCase(level) = "MATATU"
    THEN [assigned_type |-> "MATATU", assigned_id |-> ids.matatu_id]
  ELSE IF Truthy(ids.sacco_id)
    THEN [assigned_type |-> "SACCO", assigned_id |-> ids.sacco_id]
  ELSE NoTarget

\* the value resolveTarget returns, NoTarget where it throws
resolveTarget(level, ids) ==
  LET L == ToUpperCase(level)
  IN  IF L = "MATATU" /\ Truthy(ids.matatu_id)
        THEN [assigned_type |-> "MATATU", assigned_id |-> ids.matatu_id]
      ELSE IF L = "SACCO" /\ Truthy(ids.sacco_id)
        THEN [assigned_type |-> "SACCO", assigned_id |-> ids.sacco_id]
      ELSE NoTarget

\* ------------------------------------------------------------- the table
\* CHECK ussd_allocated_fields
ussd_allocated_fields(r) ==
  \/ /\ r.allocated = FALSE
     /\ r.level = NULL /\ r.sacco_id = NULL /\ r.matatu_id = NULL /\ r.cashier_id = NULL
  \/ /\ r.allocated = TRUE
     /\ \/ r.level = "SACCO" /\ r.sacco_id # NULL /\ r.matatu_id = NULL /\ r.cashier_id = NULL
        \/ r.level = "MATATU" /\ r.matatu_id # NULL /\ r.sacco_id = NULL /\ r.cashier_id = NULL
        \/ r.level = "CASHIER" /\ r.cashier_id # NULL /\ r.sacco_id = NULL /\ r.matatu_id = NULL

\* CHECK ussd_base_format
ussd_base_format(base) ==
  /\ Len(base) = 3
  /\ \A i \in 1 .. 3 : IsDigit(base[i])
  /\ base # <<"0", "0", "0">>

\* CHECK ussd_checksum_format
ussd_checksum_format(checksum) ==
  Len(checksum) = 1 /\ IsDigit(checksum[1]) /\ checksum[1] # "0"

\* the % of Postgres: the result takes the sign of the dividend
PgMod(a, b) == IF a >= 0 THEN a % b ELSE 0 - ((0 - a) % b)

\* CHECK ussd_checksum_matches_base
ussd_checksum_matches_base(base, checksum) ==
  DigitVal(checksum[1]) =
    PgMod((DigitVal(base[1]) + DigitVal(base[2]) + DigitVal(base[3])) - 1, 9) + 1

\* a new row passes the checks on base and checksum
RowAccepted(base, checksum) ==
  /\ ussd_base_format(base)
  /\ ussd_checksum_format(checksum)
  /\ ussd_checksum_matches_base(base, checksum)

\* lpad(n::text, 3, '0')
lpad3(n) ==
  LET s == DecStr(n)
  IN  IF Len(s) >= 3 THEN SubSeq(s, 1, 3)
      ELSE IF Len(s) = 2 THEN <<"0">> \o s
      ELSE <<"0", "0">> \o s

\* rows selected by the seed of the schema
SchemaSeedRows ==
  { [base |-> lpad3(n), checksum |-> DecStr(PgMod(n - 1, 9) + 1)] : n \in 1 .. 999 }

\* rows selected by seed_ussd_pool.sql
SqlSeedRows ==
  { [base |-> lpad3(g),
     checksum |-> IF \E i \in 1 .. Len(lpad3(g)) : ~IsDigit(lpad3(g)[i]) THEN <<"0">>
                  ELSE IF g = 0 THEN <<"0">>
                  ELSE DecStr(1 + PgMod(g - 1, 9))] : g \in 110 .. 139 }

RECURSIVE seedSumDigits(_)
\* sumDigits of the Node seeder
seedSumDigits(str) ==
  IF str = << >> THEN 0 ELSE DigitVal(Head(str)) + seedSumDigits(Tail(str))

RECURSIVE seedDigitalRootLoop(_)
seedDigitalRootLoop(s) == IF s > 9 THEN seedDigitalRootLoop(seedSumDigits(DecStr(s))) ELSE s

\* digitalRoot of the Node seeder: returns String(s)
seedDigitalRoot(n) == DecStr(seedDigitalRootLoop(seedSumDigits(n)))

\* rows pushed by the Node seeder
SeedRows ==
  { [base |-> PadStart3(i), checksum |-> seedDigitalRoot(PadStart3(i))] :
      i \in SeedStart .. (SeedStart + SeedCount - 1) }

SeedBases == { r.base : r \in SeedRows }

\* base -> checksum of a set of seed rows
SeedTable(rows) ==
  [b \in { r.base : r \in rows } |-> (CHOOSE r \in rows : r.base = b).checksum]

SchemaSeedTable == SeedTable(SchemaSeedRows)
SqlSeedTable == SeedTable(SqlSeedRows)
NodeSeedTable == SeedTable(SeedRows)

\* a row inserted with the defaults of the table
FreshRow(checksum) ==
  [checksum |-> checksum[1], allocated |-> FALSE, level |-> NULL, sacco_id |-> NULL,
   matatu_id |-> NULL, cashier_id |-> NULL, allocated_at |-> NoTime]

SeededPool == [b \in SeedBases |-> FreshRow(NodeSeedTable[b])]

VARIABLES
  pool,      \* ussd_pool: base -> row
  saccos,    \* ids of the rows of saccos
  matatus,   \* matatus: id -> sacco_id
  now,       \* latest clock reading taken by a request
  pc,        \* per request slot: position in its handler
  body,      \* per request slot: req.body
  tgt,       \* per request slot: { assigned_type, assigned_id }
  row,       \* per request slot: nextFree / parsed
  res,       \* per request slot: the response sent
  checks     \* whether the CHECK constraints of the schema script exist on ussd_pool

vars == <<pool, saccos, matatus, now, pc, body, tgt, row, res, checks>>

NoBody == [op |-> NULL, level |-> NULL, sacco_id |-> NULL, matatu_id |-> NULL,
           ussd_code |-> NoText, prefix |-> NoText]
NoRow == [base |-> NoText, check |-> NULL]
NoRes == [status |-> 0, success |-> FALSE, error |-> << >>, ussd_code |-> NoText,
          items |-> << >>]

Fail(status, msg) ==
  [status |-> status, success |-> FALSE, error |-> msg, ussd_code |-> NoText, items |-> << >>]
Ok(code) ==
  [status |-> 200, success |-> TRUE, error |-> << >>, ussd_code |-> code, items |-> << >>]
OkItems(items) ==
  [status |-> 200, success |-> TRUE, error |-> << >>, ussd_code |-> NoText, items |-> items]

\* the table as earlier, completed requests can have left it
EarlierPools ==
  { [b \in SeedBases |->
       IF b \in A
         THEN [SeededPool[b] EXCEPT !.allocated = TRUE, !.level = "SACCO",
                                    !.sacco_id = "s1", !.allocated_at = 1]
         ELSE SeededPool[b]] : A \in SUBSET SeedBases }

\* the checks of the schema script are taken as created; the updates of the two
\* handlers satisfy them in any case
Init ==
  /\ pool \in EarlierPools
  /\ saccos = {"s1"}
  /\ matatus = [m \in {"m1"} |-> "s1"]
  /\ now = 1
  /\ pc = [p \in Procs |-> "idle"]
  /\ body = [p \in Procs |-> NoBody]
  /\ tgt = [p \in Procs |-> NoTarget]
  /\ row = [p \in Procs |-> NoRow]
  /\ res = [p \in Procs |-> NoRes]
  /\ checks = TRUE

\* ------------------------------------------------------- request inputs
Code110 == <<"*", "0", "0", "1", "*", "1", "1", "0", "2", "#">>
Code111 == <<"*", "0", "0", "1", "*", "1", "1", "1", "3", "#">>
Code110NoHash == <<"1", "1", "0", "2">>
Code110BadCheck == <<"*", "0", "0", "1", "*", "1", "1", "0", "9", "#">>
Code110Extra == <<"*", "0", "0", "1", "*", "9", "1", "1", "0", "2", "#">>
Code200 == <<"*", "0", "0", "1", "*", "2", "0", "0", "2", "#">>
CodeShort == <<"*", "0", "0", "1", "*", "1", "1", "#">>
CodeUndefined == <<"u", "n", "d", "e", "f", "i", "n", "e", "d">>
Prefix002 == <<"*", "0", "0", "2", "*">>

Body(o, l, s, m, c, x) ==
  [op |-> o, level |-> l, sacco_id |-> s, matatu_id |-> m,
   ussd_code |-> IF o = "assign-next" THEN NoText ELSE c, prefix |-> x]

\* requests issued while other requests are in flight
Bodies ==
  { Body(o, lv[1], lv[2], lv[3], c, NoText) :
      o \in {"assign-next", "bind-from-pool"},
      lv \in {<<"SACCO", "s1", "m1">>, <<"MATATU", NULL, "m1">>, <<"CASHIER", "s1", NULL>>},
      c \in {Code110, Code111} }

\* requests issued one at a time: every level with every choice of ids, every
\* code under supported and unsupported levels, and a caller-chosen prefix
SeqBodies ==
  { Body("assign-next", l, s, m, NoText, NoText) :
      l \in {NULL, "SACCO", "MATATU", "CASHIER", "sacco", "BRANCH"},
      s \in {NULL, "s1"}, m \in {NULL, "m1"} }
  \cup
  { Body("bind-from-pool", lv[1], lv[2], lv[3], c, NoText) :
      lv \in {<<"SACCO", "s1", NULL>>, <<"MATATU", NULL, "m1">>, <<"SACCO", "s1", "m1">>,
              <<"SACCO", NULL, NULL>>, <<"CASHIER", "s1", NULL>>, <<"BRANCH", "s1", NULL>>},
      c \in {Code110, Code111, Code110NoHash, Code110BadCheck, Code110Extra,
             Code200, CodeShort, CodeUndefined} }
  \cup
  { Body(o, lv[1], lv[2], lv[3], c, Prefix002) :
      o \in {"assign-next", "bind-from-pool"},
      lv \in {<<"SACCO", "s1", NULL>>, <<"MATATU", NULL, "m1">>},
      c \in {Code110, Code111} }

\* ------------------------------------------------------------ the store
\* the select without .eq('allocated', false)
Free_IgnoresFlag(pl) == DOMAIN pl

\* the filter with the flag inverted: the slots that are taken
Free_Inverted(pl) == { b \in DOMAIN pl : pl[b].allocated = TRUE }

\* .eq('allocated', false)
Free(pl) == { b \in DOMAIN pl : pl[b].allocated = FALSE }

\* the select with { ascending: false }
LowestFree_Descending(pl) == CHOOSE b \in Free(pl) : \A c \in Free(pl) : c = b \/ TextLess(c, b)

\* .eq('allocated', false).order('base', { ascending: true }).limit(1)
LowestFree(pl) == CHOOSE b \in Free(pl) : \A c \in Free(pl) : c = b \/ TextLess(b, c)

\* the update({...}) of the time when codes went to cashiers
Patch_Cashier(r, t, at) ==
  [r EXCEPT !.allocated = TRUE,
            !.level = "CASHIER",
            !.sacco_id = NULL,
            !.matatu_id = NULL,
            !.cashier_id = t.assigned_id,
            !.allocated_at = at]

\* the row the handlers' update({...}) writes over row r
Patch(r, t, at) ==
  [r EXCEPT !.allocated = TRUE,
            !.level = t.assigned_type,
            !.sacco_id = IF t.assigned_type = "SACCO" THEN t.assigned_id ELSE NULL,
            !.matatu_id = IF t.assigned_type = "MATATU" THEN t.assigned_id ELSE NULL,
            !.cashier_id = IF t.assigned_type = "CASHIER" THEN t.assigned_id ELSE NULL,
            !.allocated_at = at]

\* the update without its filter: every row of the table is rewritten
UpdateWhereBase_NoFilter(pl, base, t, at) ==
  [b \in DOMAIN pl |-> Patch(pl[b], t, at)]

\* .update({...}).eq('base', base): every row with that base is rewritten
UpdateWhereBase(pl, base, t, at) ==
  [b \in DOMAIN pl |-> IF b = base THEN Patch(pl[b], t, at) ELSE pl[b]]

\* the statement is rejected when a rewritten row breaks the table's check
UpdateAccepted(pl, base, t, at) ==
  checks => \A b \in DOMAIN pl : b = base => ussd_allocated_fields(Patch(pl[b], t, at))

\* new Date(): the clock never runs backwards
Clock == { t \in {now, now + 1} : t <= MaxTime }

Respond(p, r) ==
  /\ pc' = [pc EXCEPT ![p] = "done"]
  /\ res' = [res EXCEPT ![p] = r]

\* ------------------------------------------- POST /api/admin/ussd/pool/assign-next
\* the select repeated until a code is free
AssignNextSelect_WaitsForFree(p) ==
  /\ pc[p] = "an_select"
  /\ IF Free(pool) = {}
       THEN UNCHANGED <<pc, res, row>>
     ELSE /\ pc' = [pc EXCEPT ![p] = "an_update"]
          /\ res' = res
          /\ row' = [row EXCEPT ![p] = [base |-> LowestFree(pool),
                                        check |-> pool[LowestFree(pool)].checksum]]
  /\ UNCHANGED <<pool, saccos, matatus, now, body, tgt, checks>>

\* the handler up to its first await
AssignNextBegin(p, b) ==
  /\ pc[p] = "idle"
  /\ b.op = "assign-next"
  /\ body' = [body EXCEPT ![p] = b]
  /\ row' = [row EXCEPT ![p] = NoRow]
  /\ LET t == resolveTarget(b.level, b)
     IN  IF ToUpperCase(b.level) = "CASHIER"
           THEN /\ Respond(p, Fail(400, <<"CASHIER level no longer supported">>))
                /\ tgt' = [tgt EXCEPT ![p] = NoTarget]
         ELSE IF t = NoTarget
           THEN /\ Respond(p, Fail(500, LevelError))
                /\ tgt' = [tgt EXCEPT ![p] = NoTarget]
         ELSE /\ pc' = [pc EXCEPT ![p] = "an_select"]
              /\ res' = [res EXCEPT ![p] = NoRes]
              /\ tgt' = [tgt EXCEPT ![p] = t]
  /\ UNCHANGED <<pool, saccos, matatus, now, checks>>

\* the select of the lowest free base
AssignNextSelect(p) ==
  /\ pc[p] = "an_select"
  /\ IF Free(pool) = {}
       THEN /\ Respond(p, Fail(400, <<"no free codes in pool">>))
            /\ row' = row
       ELSE /\ row' = [row EXCEPT ![p] = [base |-> LowestFree(pool),
                                         check |-> pool[LowestFree(pool)].checksum]]
            /\ pc' = [pc EXCEPT ![p] = "an_update"]
            /\ res' = res
  /\ UNCHANGED <<pool, saccos, matatus, now, body, tgt, checks>>

\* the update of the row read by the select, and the response
AssignNextUpdate(p) ==
  /\ pc[p] = "an_update"
  /\ \E at \in Clock :
       /\ now' = at
       /\ IF UpdateAccepted(pool, row[p].base, tgt[p], at)
            THEN /\ pool' = UpdateWhereBase(pool, row[p].base, tgt[p], at)
                 /\ Respond(p, Ok(fullCode(body[p].prefix, row[p].base, row[p].check)))
            ELSE /\ pool' = pool
                 /\ Respond(p, Fail(500, <<"violates check constraint">>))
  /\ UNCHANGED <<saccos, matatus, body, tgt, row, checks>>

\* --------------------------------------------- POST /api/admin/ussd/bind-from-pool
\* the comparison of the digits left out
ChecksumMatches_Always(want, check) == TRUE

\* the negation of: want !== parsed.check
ChecksumMatches(want, check) == want = <<check>>

\* the handler up to its first await
BindBegin(p, b) ==
  /\ pc[p] = "idle"
  /\ b.op = "bind-from-pool"
  /\ body' = [body EXCEPT ![p] = b]
  /\ LET t == resolveTarget(b.level, b)
         parsed == parseUssdDigits(b.ussd_code)
         want == DecStr(digitalRoot(parsed.base))
     IN  IF ToUpperCase(b.level) = "CASHIER"
           THEN /\ Respond(p, Fail(400, <<"CASHIER level no longer supported">>))
                /\ tgt' = [tgt EXCEPT ![p] = NoTarget]
                /\ row' = [row EXCEPT ![p] = NoRow]
         ELSE IF t = NoTarget
           THEN /\ Respond(p, Fail(500, LevelError))
                /\ tgt' = [tgt EXCEPT ![p] = NoTarget]
                /\ row' = [row EXCEPT ![p] = NoRow]
         ELSE IF parsed = NoParse
           THEN /\ Respond(p, Fail(400, <<"invalid code format">>))
                /\ tgt' = [tgt EXCEPT ![p] = t]
                /\ row' = [row EXCEPT ![p] = NoRow]
         ELSE IF ~ChecksumMatches(want, parsed.check)
           THEN /\ Respond(p, Fail(400, <<"checksum mismatch; expected ">> \o want))
                /\ tgt' = [tgt EXCEPT ![p] = t]
                /\ row' = [row EXCEPT ![p] = parsed]
         ELSE /\ pc' = [pc EXCEPT ![p] = "bf_select"]
              /\ res' = [res EXCEPT ![p] = NoRes]
              /\ tgt' = [tgt EXCEPT ![p] = t]
              /\ row' = [row EXCEPT ![p] = parsed]
  /\ UNCHANGED <<pool, saccos, matatus, now, checks>>

\* the select without the test of data.allocated
BindSelect_NoAllocatedTest(p) ==
  /\ pc[p] = "bf_select"
  /\ IF row[p].base \notin DOMAIN pool
       THEN Respond(p, Fail(400, <<"base not in pool">>))
     ELSE /\ pc' = [pc EXCEPT ![p] = "bf_update"]
          /\ res' = res
  /\ UNCHANGED <<pool, saccos, matatus, now, body, tgt, row, checks>>

\* the select without the test of !data
BindSelect_NoExistenceTest(p) ==
  /\ pc[p] = "bf_select"
  /\ IF row[p].base \in DOMAIN pool /\ pool[row[p].base].allocated
       THEN Respond(p, Fail(400, <<"already allocated">>))
     ELSE /\ pc' = [pc EXCEPT ![p] = "bf_update"]
          /\ res' = res
  /\ UNCHANGED <<pool, saccos, matatus, now, body, tgt, row, checks>>

\* the select of the row with the parsed base
BindSelect(p) ==
  /\ pc[p] = "bf_select"
  /\ IF row[p].base \notin DOMAIN pool
       THEN Respond(p, Fail(400, <<"base not in pool">>))
     ELSE IF pool[row[p].base].allocated
       THEN Respond(p, Fail(400, <<"already allocated">>))
     ELSE /\ pc' = [pc EXCEPT ![p] = "bf_update"]
          /\ res' = res
  /\ UNCHANGED <<pool, saccos, matatus, now, body, tgt, row, checks>>

\* the update of the row with the parsed base, and the response
BindUpdate(p) ==
  /\ pc[p] = "bf_update"
  /\ \E at \in Clock :
       /\ now' = at
       /\ IF UpdateAccepted(pool, row[p].base, tgt[p], at)
            THEN /\ pool' = UpdateWhereBase(pool, row[p].base, tgt[p], at)
                 /\ Respond(p, Ok(fullCode(body[p].prefix, row[p].base, row[p].check)))
            ELSE /\ pool' = pool
                 /\ Respond(p, Fail(500, <<"violates check constraint">>))
  /\ UNCHANGED <<saccos, matatus, body, tgt, row, checks>>

\* the response has been delivered: the slot can take another request
CloseRequest(p) ==
  /\ pc[p] = "done"
  /\ pc' = [pc EXCEPT ![p] = "idle"]
  /\ body' = [body EXCEPT ![p] = NoBody]
  /\ tgt' = [tgt EXCEPT ![p] = NoTarget]
  /\ row' = [row EXCEPT ![p] = NoRow]
  /\ res' = [res EXCEPT ![p] = NoRes]
  /\ UNCHANGED <<pool, saccos, matatus, now, checks>>

\* ------------------------------------------ GET /api/admin/ussd/pool/available
RECURSIVE OrderByBase_Descending(_)
\* .order('base', { ascending: false })
OrderByBase_Descending(S) ==
  IF S = {} THEN << >>
  ELSE LET b == CHOOSE x \in S : \A y \in S : x = y \/ TextLess(y, x)
       IN  <<b>> \o OrderByBase_Descending(S \ {b})

RECURSIVE OrderByBase(_)
\* .order('base')
OrderByBase(S) ==
  IF S = {} THEN << >>
  ELSE LET b == CHOOSE x \in S : \A y \in S : x = y \/ TextLess(x, y)
       IN  <<b>> \o OrderByBase(S \ {b})

\* req.query.prefix
Prefixes == {NoText, Prefix002}

\* the whole handler: one select, then the response
ListAvailable(p, x) ==
  /\ pc[p] = "idle"
  /\ body' = [body EXCEPT ![p] = [NoBody EXCEPT !.op = "list-available", !.prefix = x]]
  /\ LET prefix == IF x = NoText THEN DefaultPrefix ELSE x
         data == OrderByBase(Free(pool))
     IN  Respond(p, OkItems([i \in 1 .. Len(data) |->
                               [base |-> data[i],
                                checksum |-> pool[data[i]].checksum,
                                full_code |-> fullCode(prefix, data[i], pool[data[i]].checksum)]]))
  /\ UNCHANGED <<pool, saccos, matatus, now, tgt, row, checks>>

\* ------------------------------------------ GET /api/admin/ussd/pool/allocated
\* the select with .eq('allocated', false)
OrderByAllocatedAtDesc_WrongFlag(pl) ==
  LET A == { b \in DOMAIN pl : pl[b].allocated = FALSE }
  IN  { f \in [1 .. Cardinality(A) -> A] :
          /\ \A i, j \in 1 .. Cardinality(A) : i # j => f[i] # f[j]
          /\ \A i, j \in 1 .. Cardinality(A) :
               i < j => pl[f[i]].allocated_at >= pl[f[j]].allocated_at }

\* .eq('allocated', true).order('allocated_at', { ascending: false }): rows with
\* equal allocated_at come in any order
OrderByAllocatedAtDesc(pl) ==
  LET A == { b \in DOMAIN pl : pl[b].allocated = TRUE }
  IN  { f \in [1 .. Cardinality(A) -> A] :
          /\ \A i, j \in 1 .. Cardinality(A) : i # j => f[i] # f[j]
          /\ \A i, j \in 1 .. Cardinality(A) :
               i < j => pl[f[i]].allocated_at >= pl[f[j]].allocated_at }

\* the whole handler: one select, then the response
ListAllocated(p, x) ==
  /\ pc[p] = "idle"
  /\ body' = [body EXCEPT ![p] = [NoBody EXCEPT !.op = "list-allocated", !.prefix = x]]
  /\ LET prefix == IF x = NoText THEN DefaultPrefix ELSE x
     IN  \E data \in OrderByAllocatedAtDesc(pool) :
           Respond(p, OkItems([i \in 1 .. Len(data) |->
                                 [full_code |-> fullCode(prefix, data[i], pool[data[i]].checksum),
                                  level |-> pool[data[i]].level,
                                  sacco_id |-> pool[data[i]].sacco_id,
                                  matatu_id |-> pool[data[i]].matatu_id,
                                  allocated_at |-> pool[data[i]].allocated_at]]))
  /\ UNCHANGED <<pool, saccos, matatus, now, tgt, row, checks>>

\* ------------------------------------------------------ record deletions
\* a deletion that also hands back the codes of the deleted sacco
DeleteSacco_ReleasesCodes(id) ==
  /\ saccos' = saccos \ {id}
  /\ matatus' = [m \in { x \in DOMAIN matatus : matatus[x] # id } |-> matatus[m]]
  /\ pool' = [b \in DOMAIN pool |->
                IF pool[b].sacco_id = id
                  THEN [pool[b] EXCEPT !.allocated = FALSE, !.level = NULL,
                                       !.sacco_id = NULL, !.allocated_at = NoTime]
                  ELSE pool[b]]
  /\ UNCHANGED <<now, pc, body, tgt, row, res, checks>>

\* DELETE /api/admin/delete-sacco/:id ; matatus(sacco_id) cascades
DeleteSacco(id) ==
  /\ saccos' = saccos \ {id}
  /\ matatus' = [m \in { x \in DOMAIN matatus : matatus[x] # id } |-> matatus[m]]
  /\ UNCHANGED <<pool, now, pc, body, tgt, row, res, checks>>

\* DELETE /api/admin/delete-matatu/:id
DeleteMatatu(id) ==
  /\ matatus' = [m \in DOMAIN matatus \ {id} |-> matatus[m]]
  /\ UNCHANGED <<pool, saccos, now, pc, body, tgt, row, res, checks>>

\* -------------------------------------------------------- specifications
\* ------------------------------------------------------------- the seeders
\* insert ... on conflict (base) do nothing; a refused row aborts the statement
InsertDoNothing(pl, table) ==
  IF checks => \A b \in DOMAIN table : RowAccepted(b, table[b])
    THEN [b \in DOMAIN pl \cup DOMAIN table |->
            IF b \in DOMAIN pl THEN pl[b] ELSE FreshRow(table[b])]
  ELSE pl

\* the table after upsert(rows, { onConflict: 'base' }) of { base, checksum, allocated: false }
Upserted(pl, table) ==
  [b \in DOMAIN pl \cup DOMAIN table |->
     IF b \notin DOMAIN table THEN pl[b]
     ELSE IF b \in DOMAIN pl
       THEN [pl[b] EXCEPT !.checksum = table[b][1], !.allocated = FALSE]
     ELSE FreshRow(table[b])]

\* the seed at the end of the schema script
SchemaSeed ==
  /\ pool' = InsertDoNothing(pool, SchemaSeedTable)
  /\ UNCHANGED <<saccos, matatus, now, pc, body, tgt, row, res, checks>>

\* supabase/seed_ussd_pool.sql
SqlSeed ==
  /\ pool' = InsertDoNothing(pool, SqlSeedTable)
  /\ UNCHANGED <<saccos, matatus, now, pc, body, tgt, row, res, checks>>

\* scripts/seed-ussd-pool.js: a refused row fails the whole upsert
NodeSeed ==
  /\ pool' = IF checks => \A b \in DOMAIN NodeSeedTable :
                            /\ RowAccepted(b, NodeSeedTable[b])
                            /\ ussd_allocated_fields(Upserted(pool, NodeSeedTable)[b])
               THEN Upserted(pool, NodeSeedTable)
             ELSE pool
  /\ UNCHANGED <<saccos, matatus, now, pc, body, tgt, row, res, checks>>

Step(p) ==
  \/ AssignNextSelect(p)
  \/ AssignNextUpdate(p)
  \/ BindSelect(p)
  \/ BindUpdate(p)

\* NumProcs requests, in flight at the same time in every possible interleaving
Next ==
  \/ \E p \in Procs : \E b \in Bodies : AssignNextBegin(p, b)
  \/ \E p \in Procs : \E b \in Bodies : BindBegin(p, b)
  \/ \E p \in Procs : Step(p)

Spec == Init /\ [][Next]_vars

\* requests that race for the lowest free code and for code 110
LiveBodies ==
  { Body("assign-next", "SACCO", "s1", NULL, NoText, NoText),
    Body("bind-from-pool", "MATATU", NULL, "m1", Code110, NoText),
    Body("bind-from-pool", "SACCO", NULL, NULL, Code110, NoText) }

NextLive ==
  \/ \E p \in Procs : \E b \in LiveBodies : AssignNextBegin(p, b)
  \/ \E p \in Procs : \E b \in LiveBodies : BindBegin(p, b)
  \/ \E p \in Procs : Step(p)

\* the store answers every call and Node resumes every handler that awaits one
SpecLive == Init /\ [][NextLive]_vars /\ \A p \in Procs : WF_vars(Step(p))

\* one request at a time, together with the deletions of owner records
NextSeq ==
  \/ \E b \in SeqBodies : AssignNextBegin(1, b)
  \/ \E b \in SeqBodies : BindBegin(1, b)
  \/ Step(1)
  \/ CloseRequest(1)
  \/ \E x \in Prefixes : ListAvailable(1, x)
  \/ \E x \in Prefixes : ListAllocated(1, x)
  \/ \E id \in {"s1", "s2"} : DeleteSacco(id)
  \/ \E id \in {"m1"} : DeleteMatatu(id)

SpecSeq == Init /\ [][NextSeq]_vars

\* the table right after create table, before any seed has run
InitEmpty ==
  /\ pool = [b \in {} |-> FreshRow(<<"0">>)]
  /\ saccos = {"s1"}
  /\ matatus = [m \in {"m1"} |-> "s1"]
  /\ now = 1
  /\ pc = [p \in Procs |-> "idle"]
  /\ body = [p \in Procs |-> NoBody]
  /\ tgt = [p \in Procs |-> NoTarget]
  /\ row = [p \in Procs |-> NoRow]
  /\ res = [p \in Procs |-> NoRes]
  /\ checks = TRUE

\* every three-digit base with every check digit, for SACCO s1
ChecksumBodies ==
  { Body("bind-from-pool", "SACCO", "s1", NULL,
         DefaultPrefix \o PadStart3(n) \o <<Digits[d + 1], "#">>, NoText) :
      n \in 0 .. 999, d \in 0 .. 9 }

\* the seeders run while no request is in flight; one bind-from-pool request
NextSeed ==
  \/ pc[1] = "idle" /\ SchemaSeed
  \/ pc[1] = "idle" /\ SqlSeed
  \/ pc[1] = "idle" /\ NodeSeed
  \/ pc[1] = "idle" /\ \E b \in ChecksumBodies : BindBegin(1, b)
  \/ BindSelect(1)
  \/ BindUpdate(1)

SpecSeed == InitEmpty /\ [][NextSeed]_vars

\* the table of a deployment: with the checks of the schema script, or without
\* them where the script's "add constraint if not exists" statements were refused
InitFlow ==
  /\ pool \in EarlierPools
  /\ saccos = {"s1"}
  /\ matatus = [m \in {"m1"} |-> "s1"]
  /\ now = 1
  /\ pc = [p \in Procs |-> "idle"]
  /\ body = [p \in Procs |-> NoBody]
  /\ tgt = [p \in Procs |-> NoTarget]
  /\ row = [p \in Procs |-> NoRow]
  /\ res = [p \in Procs |-> NoRes]
  /\ checks \in BOOLEAN

\* the assign-next requests of the admin flow
FlowBodies ==
  { Body("assign-next", lv[1], lv[2], lv[3], NoText, x) :
      lv \in {<<"MATATU", NULL, "m1">>, <<"SACCO", "s1", NULL>>}, x \in Prefixes }

\* the admin flow: one assign-next request, whose answer is kept, and listings
\* before, during and after it, while the matatu can be deleted
NextFlow ==
  \/ pc[1] = "idle" /\ \E b \in FlowBodies : AssignNextBegin(1, b)
  \/ AssignNextSelect(1)
  \/ AssignNextUpdate(1)
  \/ \E x \in Prefixes : ListAvailable(2, x)
  \/ \E x \in Prefixes : ListAllocated(2, x)
  \/ CloseRequest(2)
  \/ \E id \in {"m1"} : DeleteMatatu(id)

SpecFlow == InitFlow /\ [][NextFlow]_vars

\* the admin flow on a pool over which the operator runs the Node seeder again
NextReseed ==
  \/ NextFlow
  \/ NodeSeed

SpecReseed == InitFlow /\ [][NextReseed]_vars

\* ================================================================ claims
Unallocated == { b \in DOMAIN pool : ~pool[b].allocated }

\* numeric value of a 3-digit base
BaseNum(b) == 100 * DigitVal(b[1]) + 10 * DigitVal(b[2]) + DigitVal(b[3])

\* the base inside a returned full code: the three characters before the check digit
CodeBase(code) == SubSeq(code, Len(code) - 4, Len(code) - 2)

\* the owner a row records
Owner(r) ==
  [assigned_type |-> r.level,
   assigned_id |-> IF r.level = "SACCO" THEN r.sacco_id
                   ELSE IF r.level = "MATATU" THEN r.matatu_id ELSE NULL]

Succeeded(p) == pc[p] = "done" /\ res[p].success

IsUnsupportedLevel(r) ==
  /\ ~r.success
  /\ r.error \in {<<"CASHIER level no longer supported">>,
                  <<"level must be SACCO or MATATU (CASHIER no longer supported)">>}

IsPoolExhausted(r) == ~r.success /\ r.error = <<"no free codes in pool">>

IsAlreadyAllocated(r) == ~r.success /\ r.error = <<"already allocated">>

\* C1: under any interleaving of assign-next and bind-from-pool requests, no two
\* requests are both answered with success for the same base.
C1_NoTwoOwnersOfOneBase ==
  \A p, q \in Procs :
    (p # q /\ Succeeded(p) /\ Succeeded(q)) =>
      CodeBase(res[p].ussd_code) # CodeBase(res[q].ussd_code)

\* C2: of two bind-from-pool requests for the same code with different targets, a
\* request that got success leaves the other with "already allocated" and the slot
\* with its own target.
C2_BindRaceHasOneWinner ==
  \A p, q \in Procs :
    (/\ p # q
     /\ body[p].op = "bind-from-pool" /\ body[q].op = "bind-from-pool"
     /\ pc[p] = "done" /\ pc[q] = "done"
     /\ row[p].base = row[q].base /\ tgt[p] # tgt[q]
     /\ res[p].success) =>
      /\ IsAlreadyAllocated(res[q])
      /\ Owner(pool[row[p].base]) = tgt[p]

\* C3: no step changes the level or the owner id of a slot that is allocated when
\* the step is taken.
C3_AssignmentNeverOverwritten ==
  [][\A b \in DOMAIN pool :
       pool[b].allocated =>
         /\ pool'[b].level = pool[b].level
         /\ pool'[b].sacco_id = pool[b].sacco_id
         /\ pool'[b].matatu_id = pool[b].matatu_id]_vars

\* C4: two assign-next requests that have both finished, on a pool that still has
\* a free slot after them, have both succeeded and hold two different bases.
C4_RacingAssignNextGetDistinctBases ==
  \A p, q \in Procs :
    (/\ p # q
     /\ body[p].op = "assign-next" /\ body[q].op = "assign-next"
     /\ pc[p] = "done" /\ pc[q] = "done"
     /\ tgt[p] # NoTarget /\ tgt[q] # NoTarget
     /\ Unallocated # {}) =>
      /\ res[p].success /\ res[q].success
      /\ row[p].base # row[q].base

\* C5: allocated_at changes only in a step that turns allocated from false to true.
C5_AllocatedAtWrittenOnce ==
  [][\A b \in DOMAIN pool :
       pool'[b].allocated_at # pool[b].allocated_at =>
         /\ ~pool[b].allocated /\ pool'[b].allocated
         /\ pool[b].allocated_at = NoTime]_vars

\* C6: every slot is either unallocated with level, sacco_id and matatu_id empty,
\* or allocated with level SACCO or MATATU and exactly the id of that level set.
C6_SlotFieldsConsistent ==
  \A b \in DOMAIN pool :
    \/ /\ ~pool[b].allocated
       /\ pool[b].level = NULL /\ pool[b].sacco_id = NULL /\ pool[b].matatu_id = NULL
    \/ /\ pool[b].allocated
       /\ \/ pool[b].level = "SACCO" /\ pool[b].sacco_id # NULL /\ pool[b].matatu_id = NULL
          \/ pool[b].level = "MATATU" /\ pool[b].matatu_id # NULL /\ pool[b].sacco_id = NULL

\* a request that supplied both ids has succeeded, and another request has failed
C6_Witness ==
  \E p, q \in Procs :
    /\ Succeeded(p) /\ body[p].sacco_id # NULL /\ body[p].matatu_id # NULL
    /\ pool[row[p].base].allocated /\ pool[row[p].base].matatu_id = NULL
    /\ pc[q] = "done" /\ ~res[q].success

\* C7: no step, a deletion of an owner record included, adds a base to the set of
\* unallocated bases.
C7_FreeSetNeverGrows ==
  [][{ b \in DOMAIN pool' : ~pool'[b].allocated } \subseteq Unallocated]_vars

\* the sacco and the matatu that own codes have been deleted; the codes stay theirs
C7_Witness ==
  /\ "s1" \notin saccos /\ "m1" \notin DOMAIN matatus
  /\ \E b \in DOMAIN pool : pool[b].allocated /\ pool[b].sacco_id = "s1"
  /\ \E b \in DOMAIN pool : pool[b].allocated /\ pool[b].matatu_id = "m1"

\* C8: with one request at a time, a successful assign-next returns the numerically
\* lowest base that was unallocated before it and allocates that base, so every
\* base below it is taken for good and a later call returns a higher one.
C8_AssignNextTakesLowest ==
  [][\A p \in Procs :
       (pc[p] = "an_update" /\ pc'[p] = "done" /\ res'[p].success) =>
         LET b == CodeBase(res'[p].ussd_code)
         IN  /\ b \in Unallocated
             /\ \A c \in Unallocated : c = b \/ BaseNum(b) < BaseNum(c)
             /\ pool'[b].allocated
             /\ \A c \in DOMAIN pool : BaseNum(c) < BaseNum(b) => pool'[c].allocated]_vars

\* assign-next has returned a base while a higher base is still free
C8_Witness ==
  \E p \in Procs :
    /\ Succeeded(p) /\ body[p].op = "assign-next"
    /\ \E c \in Unallocated : BaseNum(CodeBase(res[p].ussd_code)) < BaseNum(c)
    /\ \E c \in DOMAIN pool : BaseNum(c) < BaseNum(CodeBase(res[p].ussd_code))

\* C9: an assign-next request whose read finds no unallocated slot ends there with
\* "no free codes in pool" and the step changes no slot.
C9_ExhaustedPoolRejected ==
  [][\A p \in Procs :
       (pc[p] = "an_select" /\ pc'[p] # "an_select" /\ Unallocated = {}) =>
         /\ pc'[p] = "done"
         /\ IsPoolExhausted(res'[p])
         /\ pool' = pool]_vars

\* assign-next has been refused on an exhausted pool
C9_Witness ==
  \E p \in Procs :
    /\ pc[p] = "done" /\ body[p].op = "assign-next"
    /\ IsPoolExhausted(res[p]) /\ Unallocated = {}

\* C10 as stated: a request whose level is any string other than SACCO or MATATU
\* ends in its first step with an unsupported-level failure and changes no slot.
C10_AnyOtherLevelRejected ==
  [][\A p \in Procs :
       (/\ pc[p] = "idle" /\ pc'[p] # "idle"
        /\ body'[p].op \in {"assign-next", "bind-from-pool"}
        /\ body'[p].level \notin {"SACCO", "MATATU"}) =>
         /\ pc'[p] = "done"
         /\ IsUnsupportedLevel(res'[p])
         /\ pool' = pool]_vars

\* C10 as amended: a request whose level is, in any letter case, other than SACCO
\* or MATATU ends in its first step with an unsupported-level failure and changes
\* no slot.
C10_OtherLevelRejectedIgnoringCase ==
  [][\A p \in Procs :
       (/\ pc[p] = "idle" /\ pc'[p] # "idle"
        /\ body'[p].op \in {"assign-next", "bind-from-pool"}
        /\ body'[p].level \notin {"SACCO", "MATATU", "sacco", "matatu"}) =>
         /\ pc'[p] = "done"
         /\ IsUnsupportedLevel(res'[p])
         /\ pool' = pool]_vars

\* requests with level BRANCH and an id have been refused
C10_Witness ==
  \E p \in Procs :
    /\ pc[p] = "done" /\ body[p].level = "BRANCH" /\ body[p].sacco_id # NULL
    /\ IsUnsupportedLevel(res[p])

\* ---------------------------------------------------- codes, as the claims read them
\* the code without its "#" terminator
StripHash(code) ==
  IF Len(code) > 0 /\ code[Len(code)] = "#" THEN SubSeq(code, 1, Len(code) - 1) ELSE code

\* the code ends, before the terminator, with four digits
EndsWithFourDigits(code) ==
  LET c == StripHash(code)
  IN  Len(c) >= 4 /\ \A k \in 0 .. 3 : c[Len(c) - k] \in {Digits[i] : i \in 1 .. 10}

\* the three base digits and the check digit a code ends with
BaseOfCode(code) == LET c == StripHash(code) IN SubSeq(c, Len(c) - 3, Len(c) - 1)
CheckOfCode(code) == LET c == StripHash(code) IN c[Len(c)]

DigitSum(b) == DigitVal(b[1]) + DigitVal(b[2]) + DigitVal(b[3])

\* the closed form of the digital root
ClosedFormRoot(b) == IF DigitSum(b) = 0 THEN 0 ELSE 1 + ((DigitSum(b) - 1) % 9)

WrongCheckDigit(code) ==
  EndsWithFourDigits(code) /\ DigitVal(CheckOfCode(code)) # ClosedFormRoot(BaseOfCode(code))

RightCheckDigit(code) ==
  EndsWithFourDigits(code) /\ DigitVal(CheckOfCode(code)) = ClosedFormRoot(BaseOfCode(code))

\* the request names a supported level and carries the id of that level
ValidTarget(b) ==
  \/ b.level \in {"SACCO", "sacco"} /\ b.sacco_id # NULL
  \/ b.level \in {"MATATU", "matatu"} /\ b.matatu_id # NULL

IsChecksumMismatch(r) ==
  ~r.success /\ Len(r.error) >= 1 /\ r.error[1] = "checksum mismatch; expected "

IsNotFound(r) == ~r.success /\ r.error = <<"base not in pool">>

IsFormatError(r) == ~r.success /\ r.error = <<"invalid code format">>

\* C11: a bind-from-pool request whose code carries a check digit other than the
\* digital root of its base ends in its first step as a failure and changes no
\* slot; when its target is valid the failure is the checksum mismatch.
C11_WrongCheckDigitRejected ==
  [][\A p \in Procs :
       (/\ pc[p] = "idle" /\ pc'[p] # "idle"
        /\ body'[p].op = "bind-from-pool"
        /\ WrongCheckDigit(body'[p].ussd_code)) =>
         /\ pc'[p] = "done"
         /\ ~res'[p].success
         /\ pool' = pool
         /\ ValidTarget(body'[p]) => IsChecksumMismatch(res'[p])]_vars

\* "*001*1109#" has been refused with a checksum mismatch and 110 is still free
C11_Witness ==
  \E p \in Procs :
    /\ pc[p] = "done" /\ body[p].ussd_code = Code110BadCheck
    /\ IsChecksumMismatch(res[p])
    /\ ~pool[<<"1", "1", "0">>].allocated

\* C12: with one request at a time, the read of a bind-from-pool request that
\* finds its slot allocated ends the request with "already allocated" and leaves
\* level, owner id and allocated_at of the slot, and every other slot, as they were.
C12_BindOnAllocatedRejected ==
  [][\A p \in Procs :
       (/\ pc[p] = "bf_select" /\ pc'[p] # "bf_select"
        /\ BaseOfCode(body[p].ussd_code) \in DOMAIN pool
        /\ pool[BaseOfCode(body[p].ussd_code)].allocated) =>
         /\ pc'[p] = "done"
         /\ IsAlreadyAllocated(res'[p])
         /\ pool' = pool]_vars

\* a bind for MATATU m1 has been refused on a slot that SACCO s1 keeps
C12_Witness ==
  \E p \in Procs :
    /\ pc[p] = "done" /\ body[p].op = "bind-from-pool"
    /\ IsAlreadyAllocated(res[p])
    /\ tgt[p] = [assigned_type |-> "MATATU", assigned_id |-> "m1"]
    /\ Owner(pool[BaseOfCode(body[p].ussd_code)]) = [assigned_type |-> "SACCO", assigned_id |-> "s1"]
    /\ pool[BaseOfCode(body[p].ussd_code)].allocated_at # NoTime

\* C13: the read of a bind-from-pool request whose base has no row ends the
\* request with "base not in pool"; no row is created and no row changes.
C13_UnknownBaseRejected ==
  [][\A p \in Procs :
       (/\ pc[p] = "bf_select" /\ pc'[p] # "bf_select"
        /\ BaseOfCode(body[p].ussd_code) \notin DOMAIN pool) =>
         /\ pc'[p] = "done"
         /\ IsNotFound(res'[p])
         /\ pool' = pool]_vars

\* "*001*2002#" (right check digit, base 200 not seeded) has been refused
C13_Witness ==
  \E p \in Procs :
    /\ pc[p] = "done" /\ body[p].ussd_code = Code200
    /\ RightCheckDigit(body[p].ussd_code)
    /\ IsNotFound(res[p])
    /\ <<"2", "0", "0">> \notin DOMAIN pool

\* the prefix the request is answered with
PrefixOf(b) == IF b.prefix = NoText THEN <<"*", "0", "0", "1", "*">> ELSE b.prefix

\* the prefix, then three base digits and one check digit, then an optional "#"
WellFormedCode(code, prefix) ==
  /\ Len(StripHash(code)) = Len(prefix) + 4
  /\ SubSeq(StripHash(code), 1, Len(prefix)) = prefix
  /\ EndsWithFourDigits(code)

\* C14: a bind-from-pool request with a valid target whose code is anything other
\* than the prefix, three base digits, one check digit and an optional "#" ends in
\* its first step with "invalid code format" and changes no slot.
C14_OnlyWellFormedCodesAccepted ==
  [][\A p \in Procs :
       (/\ pc[p] = "idle" /\ pc'[p] # "idle"
        /\ body'[p].op = "bind-from-pool"
        /\ ValidTarget(body'[p])
        /\ ~WellFormedCode(body'[p].ussd_code, PrefixOf(body'[p]))) =>
         /\ pc'[p] = "done"
         /\ IsFormatError(res'[p])
         /\ pool' = pool]_vars

\* the request names SACCO or MATATU and leaves out the id of that level
MissingTargetId(b) ==
  \/ b.level \in {"SACCO", "sacco"} /\ b.sacco_id = NULL
  \/ b.level \in {"MATATU", "matatu"} /\ b.matatu_id = NULL

\* C15: a finished request with a supported level and no id for that level has
\* failed with an answer that is not one an unsupported level is answered with.
C15_MissingTargetDistinguishable ==
  \A p \in Procs :
    (pc[p] = "done" /\ MissingTargetId(body[p])) =>
      /\ ~res[p].success
      /\ ~IsUnsupportedLevel(res[p])

\* a bind-from-pool request whose code reached the recomputation of the checksum
ChecksumComputed(p) ==
  /\ pc[p] # "idle"
  /\ body[p].op = "bind-from-pool"
  /\ ValidTarget(body[p])
  /\ EndsWithFourDigits(body[p].ussd_code)

\* the text the server computed for the base of the request: the one its answer
\* names when it refuses the check digit, the check digit itself when it accepts it
ServerRoot(p) ==
  IF IsChecksumMismatch(res[p]) THEN Tail(res[p].error)
  ELSE <<CheckOfCode(body[p].ussd_code)>>

NonZeroDigits == {"1", "2", "3", "4", "5", "6", "7", "8", "9"}

\* C16: for every base from 001 to 999 the digital root the server computes is one
\* character among 1..9, a text the table's check on the checksum column admits.
C16_RootIsOneNonZeroDigit ==
  \A p \in Procs :
    (ChecksumComputed(p) /\ BaseOfCode(body[p].ussd_code) # <<"0", "0", "0">>) =>
      /\ Len(ServerRoot(p)) = 1
      /\ ServerRoot(p)[1] \in NonZeroDigits
      /\ ussd_checksum_format(ServerRoot(p))

\* "*001*9990#" has been refused and the answer names 9, the root of 27
C16_Witness ==
  \E p \in Procs :
    /\ pc[p] = "done" /\ BaseOfCode(body[p].ussd_code) = <<"9", "9", "9">>
    /\ CheckOfCode(body[p].ussd_code) = "0"
    /\ res[p].error = <<"checksum mismatch; expected ", "9">>

\* C17: for every base with digit sum s >= 1 the digital root the server computes
\* is 1 + ((s - 1) mod 9), the value the table's check on base and checksum
\* demands; for base 000 it is 0.
C17_RootEqualsClosedForm ==
  \A p \in Procs :
    ChecksumComputed(p) =>
      IF DigitSum(BaseOfCode(body[p].ussd_code)) >= 1
        THEN /\ ServerRoot(p) = DecStr(1 + ((DigitSum(BaseOfCode(body[p].ussd_code)) - 1) % 9))
             /\ ussd_checksum_matches_base(BaseOfCode(body[p].ussd_code), ServerRoot(p))
      ELSE ServerRoot(p) = <<"0">>

\* base 199 (digit sums 19, then 10, then 1) has passed with check digit 1
C17_Witness ==
  \E p \in Procs :
    /\ pc[p] = "bf_select" /\ row[p].base = <<"1", "9", "9">> /\ row[p].check = "1"
    /\ DigitSum(row[p].base) = 19

\* C18: no bind-from-pool request is refused with a checksum mismatch for a code
\* made of the base and the checksum of a row that a seeder created.
C18_SeededCodesPassReverification ==
  \A p \in Procs :
    (/\ ChecksumComputed(p)
     /\ BaseOfCode(body[p].ussd_code) \in DOMAIN pool
     /\ CheckOfCode(body[p].ussd_code) = pool[BaseOfCode(body[p].ussd_code)].checksum) =>
       ~IsChecksumMismatch(res[p])

\* after the seed of the schema (the only one that creates 001) the code of row
\* 999 has passed the recomputation and the read of its row
C18_Witness ==
  \E p \in Procs :
    /\ <<"0", "0", "1">> \in DOMAIN pool
    /\ pc[p] = "bf_update" /\ row[p].base = <<"9", "9", "9">>
    /\ row[p].check = pool[<<"9", "9", "9">>].checksum

\* the text of a full code: prefix, the three digits of base b, the checksum of
\* the slot of b, "#"
IsCodeOfSlot(code, prefix, b) ==
  /\ Len(b) = 3
  /\ pool[b].checksum \in {Digits[i] : i \in 1 .. 10}
  /\ code = prefix \o b \o <<pool[b].checksum>> \o <<"#">>

\* C19: every code in a successful answer of assign-next, bind-from-pool,
\* list-available or list-allocated is the caller's prefix ("*001*" when none is
\* given), the three-digit base of a slot, that slot's one-digit checksum and "#".
C19_ReturnedCodesHaveFullFormat ==
  \A p \in Procs :
    (pc[p] = "done" /\ res[p].success) =>
      /\ body[p].op \in {"assign-next", "bind-from-pool"} =>
           \E b \in DOMAIN pool : IsCodeOfSlot(res[p].ussd_code, PrefixOf(body[p]), b)
      /\ body[p].op = "list-available" =>
           \A i \in 1 .. Len(res[p].items) :
             /\ res[p].items[i].base \in DOMAIN pool
             /\ IsCodeOfSlot(res[p].items[i].full_code, PrefixOf(body[p]), res[p].items[i].base)
      /\ body[p].op = "list-allocated" =>
           \A i \in 1 .. Len(res[p].items) :
             \E b \in DOMAIN pool :
               /\ pool[b].allocated
               /\ IsCodeOfSlot(res[p].items[i].full_code, PrefixOf(body[p]), b)

\* list-available with prefix "*002*" has answered "*002*1102#" first
C19_Witness ==
  \E p \in Procs :
    /\ pc[p] = "done" /\ body[p].op = "list-available" /\ body[p].prefix = Prefix002
    /\ Len(res[p].items) >= 1
    /\ res[p].items[1].full_code = <<"*", "0", "0", "2", "*", "1", "1", "0", "2", "#">>

\* C20: the answer of list-available is a success whose items are the slots that
\* are unallocated when the handler reads the table, each once, in ascending
\* order of base; with no unallocated slot the items are the empty sequence.
C20_ListAvailableExactAscending ==
  [][\A p \in Procs :
       (pc[p] = "idle" /\ pc'[p] # "idle" /\ body'[p].op = "list-available") =>
         /\ pc'[p] = "done"
         /\ res'[p].success
         /\ { res'[p].items[i].base : i \in 1 .. Len(res'[p].items) } = Unallocated
         /\ Len(res'[p].items) = Cardinality(Unallocated)
         /\ \A i, j \in 1 .. Len(res'[p].items) :
              i < j => BaseNum(res'[p].items[i].base) < BaseNum(res'[p].items[j].base)
         /\ pool' = pool]_vars

\* list-available has answered two slots while another slot is allocated
C20_Witness ==
  \E p \in Procs :
    /\ pc[p] = "done" /\ body[p].op = "list-available"
    /\ Len(res[p].items) = 2
    /\ \E b \in DOMAIN pool : pool[b].allocated /\ b \notin Unallocated

\* the place of base b in a listing
PlaceOf(f, b) == CHOOSE i \in DOMAIN f : f[i] = b

\* the request of p is answered with success at this step
SucceedsNow(p) ==
  pc[p] \in {"an_update", "bf_update"} /\ pc'[p] = "done" /\ res'[p].success

\* C21: when an allocation succeeds after another allocation, of another base, has
\* succeeded, every order in which list-allocated can then return the allocated
\* slots has the later one before the earlier one.
C21_LaterAllocationListedFirst ==
  [][\A p, q \in Procs :
       (/\ p # q /\ Succeeded(q) /\ SucceedsNow(p)
        /\ CodeBase(res'[p].ussd_code) # CodeBase(res[q].ussd_code)) =>
         \A f \in OrderByAllocatedAtDesc(pool') :
           PlaceOf(f, CodeBase(res'[p].ussd_code)) < PlaceOf(f, CodeBase(res[q].ussd_code))]_vars

\* the listing of q is read at this step
ListsNow(q, op) == pc[q] = "idle" /\ pc'[q] = "done" /\ body'[q].op = op

\* C22: once assign-next has answered success with code c, every list-allocated
\* read afterwards has an item with full_code c, and no list-available read
\* afterwards has an item with the base of c.
C22_AssignedCodeStaysListed ==
  [][\A p, q \in Procs :
       (Succeeded(p) /\ body[p].op = "assign-next") =>
         /\ ListsNow(q, "list-allocated") =>
              \E i \in 1 .. Len(res'[q].items) : res'[q].items[i].full_code = res[p].ussd_code
         /\ ListsNow(q, "list-available") =>
              \A i \in 1 .. Len(res'[q].items) :
                res'[q].items[i].base # CodeBase(res[p].ussd_code)]_vars

\* C22 as amended: the same, for a list-allocated asked with the prefix the
\* assign-next request was asked with (both with none included).
C22_AssignedCodeStaysListedSamePrefix ==
  [][\A p, q \in Procs :
       (Succeeded(p) /\ body[p].op = "assign-next") =>
         /\ (ListsNow(q, "list-allocated") /\ body'[q].prefix = body[p].prefix) =>
              \E i \in 1 .. Len(res'[q].items) : res'[q].items[i].full_code = res[p].ussd_code
         /\ ListsNow(q, "list-available") =>
              \A i \in 1 .. Len(res'[q].items) :
                res'[q].items[i].base # CodeBase(res[p].ussd_code)]_vars

\* assign-next has answered "*002*...#" for MATATU m1 and a later list-allocated
\* with prefix "*002*" shows that code, while the matatu is already deleted
C22_Witness ==
  \E p, q \in Procs :
    /\ Succeeded(p) /\ body[p].op = "assign-next" /\ body[p].prefix = Prefix002
    /\ tgt[p].assigned_type = "MATATU" /\ "m1" \notin DOMAIN matatus
    /\ pc[q] = "done" /\ body[q].op = "list-allocated" /\ body[q].prefix = Prefix002
    /\ \E i \in 1 .. Len(res[q].items) :
         /\ res[q].items[i].full_code = res[p].ussd_code
         /\ res[q].items[i].matatu_id = "m1"

\* C23: a step that runs the Node seeder over bases that all exist (a step that
\* moves no request and deletes no owner record) leaves every slot as it was.
C23_SeederRerunChangesNothing ==
  [][(/\ pc' = pc /\ saccos' = saccos /\ matatus' = matatus
      /\ \A i \in SeedStart .. (SeedStart + SeedCount - 1) : PadStart3(i) \in DOMAIN pool) =>
        pool' = pool]_vars

\* C24: a bind-from-pool request whose code has no four digits before its end, or
\* a wrong check digit, and whose level is not supported either is answered with
\* the format error or the checksum mismatch, not with the level error.
C24_CodeCheckedBeforeTarget ==
  [][\A p \in Procs :
       (/\ pc[p] = "idle" /\ pc'[p] # "idle"
        /\ body'[p].op = "bind-from-pool"
        /\ body'[p].level \notin {"SACCO", "MATATU", "sacco", "matatu"}
        /\ \/ ~EndsWithFourDigits(body'[p].ussd_code)
           \/ WrongCheckDigit(body'[p].ussd_code)) =>
         /\ pc'[p] = "done"
         /\ IsFormatError(res'[p]) \/ IsChecksumMismatch(res'[p])]_vars

\* how far a request is: not begun, awaiting its select, awaiting its update, answered
StageOf(p) ==
  CASE pc[p] = "idle" -> 0
    [] pc[p] \in {"an_select", "bf_select"} -> 1
    [] pc[p] \in {"an_update", "bf_update"} -> 2
    [] pc[p] = "done" -> 3

\* C25: whatever the other requests do, a request that has begun gets its answer;
\* each of its steps is one store call that moves it forward, so it makes at most
\* two; it has no answer before it ends, and the answer it ends with, a success
\* or a failure with a message, is never replaced.
C25_EveryRequestEndsOnce ==
  /\ \A p \in Procs : (pc[p] # "idle") ~> (pc[p] = "done")
  /\ [][\A p \in Procs :
          /\ pc'[p] # pc[p] =>
               /\ pc[p] # "done"
               /\ pc'[p] \in {"an_select", "an_update", "bf_select", "bf_update", "done"}
               /\ pc[p] \in {"an_select", "bf_select"} => pc'[p] # pc[p] /\ pc'[p] \notin {"an_select", "bf_select"}
               /\ pc[p] \in {"an_update", "bf_update"} => pc'[p] = "done"
          /\ pc'[p] # "done" => res'[p].status = 0
          /\ pc'[p] = "done" => res'[p].success \/ res'[p].error # << >>
          /\ pc[p] = "done" => res'[p] = res[p]]_vars

\* two racing requests have both ended, one with a success and one with a failure
C25_Witness ==
  \E p, q \in Procs :
    /\ pc[p] = "done" /\ res[p].success /\ StageOf(p) = 3
    /\ pc[q] = "done" /\ ~res[q].success /\ res[q].error # << >>

\* C26: the step in which a request succeeds writes one slot, the one whose code
\* it returns, which then records the request's target and the time of the step;
\* the slots keep their bases (no slot appears or disappears), no checksum changes,
\* and every other slot keeps all its fields.
C26_SuccessWritesOneSlot ==
  [][\A p \in Procs :
       SucceedsNow(p) =>
         LET b == CodeBase(res'[p].ussd_code) IN
           /\ b \in DOMAIN pool
           /\ DOMAIN pool' = DOMAIN pool
           /\ \A c \in DOMAIN pool :
                /\ pool'[c].checksum = pool[c].checksum
                /\ c # b => pool'[c] = pool[c]
           /\ pool'[b].allocated
           /\ Owner(pool'[b]) = tgt[p]
           /\ pool'[b].allocated_at = now']_vars

\* a request has succeeded for one slot while another slot is still unallocated
C26_Witness ==
  \E p \in Procs :
    /\ Succeeded(p)
    /\ pool[CodeBase(res[p].ussd_code)].allocated
    /\ Owner(pool[CodeBase(res[p].ussd_code)]) = tgt[p]
    /\ \E c \in Unallocated : c # CodeBase(res[p].ussd_code)

\* C27: assign-next answers that the pool is exhausted only in a step, its read of
\* the pool, at which no slot of the pool is unallocated.
C27_ExhaustedOnlyWhenNoneFree ==
  [][\A p \in Procs :
       (/\ pc[p] # "done" /\ pc'[p] = "done"
        /\ body'[p].op = "assign-next" /\ IsPoolExhausted(res'[p])) =>
         /\ pc[p] = "an_select"
         /\ Unallocated = {}
         /\ pool' = pool]_vars

\* one request took the last free slot and a later assign-next was refused
C27_Witness ==
  \E p, q \in Procs :
    /\ Succeeded(q)
    /\ pc[p] = "done" /\ body[p].op = "assign-next" /\ IsPoolExhausted(res[p])
    /\ \A b \in DOMAIN pool : pool[b].allocated

\* C28: no slot has level CASHIER and no slot has a cashier_id.
C28_NoCashierSlot ==
  \A b \in DOMAIN pool :
    pool[b].level # "CASHIER" /\ pool[b].cashier_id = NULL

\* a request for level CASHIER was refused and the slots that are allocated
\* belong to saccos and matatus
C28_Witness ==
  /\ \E p \in Procs :
       pc[p] = "done" /\ body[p].level \in {"CASHIER", "cashier"} /\ IsUnsupportedLevel(res[p])
  /\ \E b \in DOMAIN pool : pool[b].allocated /\ pool[b].level \in {"SACCO", "MATATU"}

\* the three characters that follow a five-character prefix
BaseAfterPrefix(code) == SubSeq(code, 6, 8)

\* the request was stopped neither by the format test nor by the checksum test
PassedCodeChecks(p) ==
  /\ ~IsFormatError(res[p]) /\ ~IsChecksumMismatch(res[p])
  /\ pc[p] \in {"bf_select", "bf_update"} \/ (pc[p] = "done" /\ (res[p].success \/ IsNotFound(res[p]) \/ IsAlreadyAllocated(res[p])))

\* C29: a code formatted with the default prefix from a base 001..999 and the
\* digital root of that base parses back to that base and that digit, and a
\* bind-from-pool request carrying it passes the format and the checksum tests;
\* so does the code list-available shows for a slot of the pool, which is
\* formatted from the slot's base and stored checksum.
C29_FormattedCodeParsesBack ==
  \A p \in Procs :
    body[p].op = "bind-from-pool" =>
      LET c == body[p].ussd_code
          b == BaseAfterPrefix(c)
          d == DecStr(digitalRoot(b))[1]
      IN  /\ (BaseNum(b) \in 1 .. 999 /\ c = fullCode(DefaultPrefix, b, d)) =>
                /\ parseUssdDigits(c) = [base |-> b, check |-> d]
                /\ PassedCodeChecks(p)
          /\ (b \in DOMAIN pool /\ c = fullCode(NoText, b, pool[b].checksum)) =>
                /\ parseUssdDigits(c) = [base |-> b, check |-> pool[b].checksum]
                /\ PassedCodeChecks(p)

\* the code list-available shows for slot 999 of the seeded pool has been bound
C29_Witness ==
  /\ <<"9", "9", "9">> \in DOMAIN pool
  /\ Succeeded(1)
  /\ body[1].ussd_code = fullCode(NoText, <<"9", "9", "9">>, pool[<<"9", "9", "9">>].checksum)
  /\ pool[<<"9", "9", "9">>].allocated

\* C30: when bind-from-pool has succeeded, the check digit it parsed from the
\* caller's code is the checksum stored in the slot of the parsed base, and the
\* code it returns is the text list-available formats for that slot under the
\* same prefix: prefix, base, stored checksum, "#".
C30_BoundDigitIsStoredChecksum ==
  \A p \in Procs :
    (Succeeded(p) /\ body[p].op = "bind-from-pool") =>
      /\ row[p].base \in DOMAIN pool
      /\ pool[row[p].base].checksum = row[p].check
      /\ DigitVal(pool[row[p].base].checksum) = ClosedFormRoot(row[p].base)
      /\ res[p].ussd_code =
           PrefixOf(body[p]) \o row[p].base \o <<pool[row[p].base].checksum>> \o <<"#">>

\* the slot of base 139, seeded with checksum 4, has been bound with "*001*1394#"
C30_Witness ==
  \E p \in Procs :
    /\ Succeeded(p) /\ body[p].op = "bind-from-pool"
    /\ row[p] = [base |-> <<"1", "3", "9">>, check |-> "4"]
    /\ pool[<<"1", "3", "9">>].allocated
    /\ pool[<<"1", "3", "9">>].checksum = "4"
    /\ res[p].ussd_code = <<"*", "0", "0", "1", "*", "1", "3", "9", "4", "#">>

====
